---- MODULE Spec2Model ----
(***************************************************************************)
(* Gimel Studio: the node evaluation and caching engine.                   *)
(*                                                                         *)
(* gimelstudio/core/node/node.py (class Node) and                          *)
(* nodes/corenodes/filter/blur_node.py (class BlurNode) are modelled from  *)
(* their code.  EvalInfo, Property, Parameter and the mute flag of the     *)
(* node view live outside these two files and are modelled from the        *)
(* written specification.                                                  *)
(*                                                                         *)
(* A graph of NumNodes nodes: node 1 is an image source (no sockets), the  *)
(* others are Blur nodes.  Every operation of a node is one action; an     *)
(* evaluation is a synchronous recursive call chain and is therefore one   *)
(* action, computed by the recursive operators below, which thread the     *)
(* part of the state an evaluation changes (cache, edited flags) together  *)
(* with what a test would observe (call counters, the reads made).         *)
(*                                                                         *)
(* Spec starts from the graph as constructed and wired.  SpecSeq starts    *)
(* from the two-socket graph after a render and an edit and keeps the      *)
(* operation before the last one, for what two consecutive operations do.  *)
(***************************************************************************)
EXTENDS Integers, Sequences, FiniteSets, TLC

\* ---------------------------------------------------------------- bounds
NumNodes == 3
MaxOps == 4
MaxSeqOps == 3

\* ------------------------------------------------------------- constants
Unbound == 0
DefaultKernel == 5

Nodes == 1 .. NumNodes
SourceNodes == {1}
ParamNames == {"image", "image 1"}
PropNames == {"filter_type", "kernel_x", "kernel_y"}

VARIABLES
    properties,     \* node -> (property idname -> value)      self._properties
    parameters,     \* node -> (parameter idname -> binding)   self._parameters
    cache,          \* node -> (name -> value)                 self._cache
    cache_enabled,  \* node -> BOOLEAN                         self._cache_enabled
    edited_flag,    \* node -> BOOLEAN                         self._edited_flag
    muted,          \* node -> BOOLEAN                         self.IsMuted()
    last,           \* what the most recent operation did and returned
    nops,           \* number of operations performed so far
    prev            \* what the operation before it did (SpecSeq); "Off" in Spec

vars == <<properties, parameters, cache, cache_enabled, edited_flag, muted, last, nops, prev>>

\* ------------------------------------------------------------ node types
EmptyMap == [x \in {} |-> <<>>]

\* BlurNode.NodeInitProps: three properties with their defaults.
BlurInitProps ==
    [p \in PropNames |-> IF p = "filter_type" THEN "Box" ELSE DefaultKernel]

\* BlurNode.NodeInitParams: one socket, "image", not yet connected.
BlurInitParams == [p \in {"image"} |-> Unbound]

NodeInitProps(n) == IF n \in SourceNodes THEN EmptyMap ELSE BlurInitProps

NodeInitParams(n) == IF n \in SourceNodes THEN EmptyMap ELSE BlurInitParams

\* The edits a property widget delivers: (idname, value).
PropEdits == {<<"kernel_x", DefaultKernel + 1>>, <<"filter_type", "Gaussian">>}

\* A binding refers to an upstream node; the graph is a DAG, so a socket of
\* node n is only ever connected to a node before it.
Bindings(n) == {Unbound} \cup {m \in Nodes : m < n}

\* ------------------------------------------------------ image transforms
\* The image a source node produces.
SourceImage(n) == << <<"Source", n, 0>> >>

\* cv2.boxFilter / cv2.GaussianBlur applied to img, kept symbolic: the image
\* is the list of transforms applied to the source image.
BoxFilter(img, kx, ky) == Append(img, <<"Box", kx, ky>>)

GaussianBlur(img, sx, sy) == Append(img, <<"Gaussian", sx, sy>>)

BlurTransform(img, filter_type, kernel_x, kernel_y) ==
    IF filter_type = "Box"
    THEN BoxFilter(img, kernel_x, kernel_y)
    ELSE IF (kernel_x % 2) = 0 /\ (kernel_y % 2) = 0
         THEN GaussianBlur(img, kernel_x + 1, kernel_y + 1)
         ELSE GaussianBlur(img, kernel_x, kernel_y)

\* ------------------------------------------------- evaluation: the state
\* The part of the program state an evaluation reads and writes, with the
\* observations made along the way.
StateOf(c, e) ==
    [cache  |-> c,
     edited |-> e,
     ctx    |-> <<>>,                  \* the EvaluateParameter calls, as completed
     evals  |-> [n \in Nodes |-> 0],   \* evaluations of n through EvaluateNode
     nruns  |-> [n \in Nodes |-> 0],   \* runs of n's NodeEvaluation
     mruns  |-> [n \in Nodes |-> 0],   \* runs of n's MutedNodeEvaluation
     reads  |-> <<>>,                  \* the EvalParameter calls, as completed
     hooks  |-> 0,                     \* NodeWidgetEventHook calls
     renders |-> 0,                    \* render requests sent to the graph
     events |-> <<>>]                  \* hook calls and render requests, in order

\* The state an operation starts from.
EvalState == StateOf(cache, edited_flag)

Ok(v, st) == [ok |-> TRUE, val |-> v, err |-> "", st |-> st]

Fail(e, st) == [ok |-> FALSE, val |-> <<>>, err |-> e, st |-> st]

\* ------------------------------------------------ Node: cache primitives
\* Node.IsNodeCacheEnabled
IsNodeCacheEnabled(n) == cache_enabled[n]

\* Node.IsInCache: the try/except KeyError lookup.
IsInCache(c, name) == name \in DOMAIN c

\* Node.GetEditedFlag, on the threaded state.
GetEditedFlag(st, n) == st.edited[n]

\* Node.SetEditedFlag, on the threaded state.
SetEditedFlag(st, n, edited) == [st EXCEPT !.edited[n] = edited]

\* self._cache[name] = value
CacheStore(c, name, value) ==
    [x \in DOMAIN c \cup {name} |-> IF x = name THEN value ELSE c[x]]

\* del self._cache[name]
CacheDelete(c, name) == [x \in DOMAIN c \ {name} |-> c[x]]

\* RemoveFromCache dropping the whole cache instead of the one entry.
RemoveFromCache_DropAll(c, enabled, name) ==
    IF IsInCache(c, name) /\ enabled THEN EmptyMap ELSE c

\* RemoveFromCache keeping the entry.
RemoveFromCache_Keep(c, enabled, name) == c

\* RemoveFromCache blanking the entry instead of deleting it.
RemoveFromCache_Tombstone(c, enabled, name) ==
    IF IsInCache(c, name) /\ enabled THEN CacheStore(c, name, <<>>) ELSE c

\* Node.RemoveFromCache: drops the entry only if it exists and caching is on.
RemoveFromCache(c, enabled, name) ==
    IF IsInCache(c, name) /\ enabled THEN CacheDelete(c, name) ELSE c

\* Node.ClearCache
ClearCache(c) == EmptyMap

\* The cache served whenever it holds a value, whatever the edited flag.
UseCache_IfCached(edited, cached) == cached

\* Line 214 of EvalParameter: the condition under which the cached value is
\* returned instead of asking the context.
UseCache(edited, cached) == edited /\ cached

\* Node.IsMuted (the node view's mute flag).
IsMuted(n) == muted[n]

\* --------------------------------------------- evaluation: the recursion
RECURSIVE EvaluateParameter(_, _, _)
RECURSIVE EvalParameter(_, _, _)
RECURSIVE EvaluateNode(_, _)

\* One completed call on node n for `name`, as a test's stub would log it.
Call(r, n, name) == [node |-> n, name |-> name, ok |-> r.ok, val |-> r.val, err |-> r.err]

\* A completed EvalParameter call is logged.
LogRead(r, n, name) == [r EXCEPT !.st.reads = Append(@, Call(r, n, name))]

\* A completed EvaluateParameter call on a context is logged.
LogCtx(r, n, name) == [r EXCEPT !.st.ctx = Append(@, Call(r, n, name))]

\* EvalInfo(node).EvaluateParameter(name): resolves the socket's upstream
\* node and evaluates it; UnknownIdentifier for an undeclared name,
\* UnboundParameter for a socket that is not connected.
EvaluateParameter(st, n, name) ==
    LET r == IF name \notin DOMAIN parameters[n]
             THEN Fail("UnknownIdentifier", st)
             ELSE IF parameters[n][name] = Unbound
                  THEN Fail("UnboundParameter", st)
                  ELSE EvaluateNode(st, parameters[n][name])
    IN  LogCtx(r, n, name)

\* EvalInfo(node).EvaluateProperty(name)
EvaluateProperty(st, n, name) ==
    IF name \in DOMAIN properties[n]
    THEN Ok(properties[n][name], st)
    ELSE Fail("UnknownIdentifier", st)

\* EvalProperty memoising the value the way EvalParameter does.
EvalProperty_Cached(st, n, name) ==
    IF IsInCache(st.cache[n], name)
    THEN Ok(st.cache[n][name], st)
    ELSE LET r == EvaluateProperty(st, n, name)
         IN  IF r.ok THEN [r EXCEPT !.st.cache[n] = CacheStore(@, name, r.val)] ELSE r

\* Node.EvalProperty
EvalProperty(st, n, name) == EvaluateProperty(st, n, name)

\* The cached branch forgetting to clear the edited flag.
EvalParameterCached_KeepFlag(st, n, name) == Ok(st.cache[n][name], st)

\* EvalParameter, cache enabled, edited flag set and a value cached:
\* the cached value is returned and the flag cleared.
EvalParameterCached(st, n, name) ==
    Ok(st.cache[n][name], SetEditedFlag(st, n, FALSE))

\* The recompute branch keeping an entry that is already there.
EvalParameterStore_NoOverwrite(r, n, name) ==
    IF r.ok
    THEN [r EXCEPT !.st =
            SetEditedFlag(
                [r.st EXCEPT !.cache[n] =
                    IF IsInCache(@, name) THEN @ ELSE CacheStore(@, name, r.val)],
                n, FALSE)]
    ELSE r

\* The recompute branch answering a failed context call with an empty image.
EvalParameterStore_DefaultOnFailure(r, n, name) ==
    IF r.ok
    THEN [r EXCEPT !.st =
            SetEditedFlag([r.st EXCEPT !.cache[n] = CacheStore(@, name, r.val)], n, FALSE)]
    ELSE Ok(<<>>, r.st)

\* The recompute branch clearing the edited flag although the context failed.
EvalParameterStore_ClearsFlagOnFailure(r, n, name) ==
    IF r.ok
    THEN [r EXCEPT !.st =
            SetEditedFlag([r.st EXCEPT !.cache[n] = CacheStore(@, name, r.val)], n, FALSE)]
    ELSE [r EXCEPT !.st = SetEditedFlag(r.st, n, FALSE)]

\* EvalParameter, cache enabled, otherwise: r is what the context returned;
\* an exception leaves the method before the cache and the flag are touched.
EvalParameterStore(r, n, name) ==
    IF r.ok
    THEN [r EXCEPT !.st =
            SetEditedFlag([r.st EXCEPT !.cache[n] = CacheStore(@, name, r.val)], n, FALSE)]
    ELSE r

\* The cache-disabled branch storing its result all the same.
EvalParameterUncached_Store(r, n, name) ==
    IF r.ok THEN [r EXCEPT !.st.cache[n] = CacheStore(@, name, r.val)] ELSE r

\* EvalParameter, cache disabled: the context's answer, nothing else.
EvalParameterUncached(r, n, name) == r

\* Node.EvalParameter
EvalParameter(st, n, name) ==
    LET cached == IsInCache(st.cache[n], name)
        r == IF IsNodeCacheEnabled(n)
             THEN IF UseCache(GetEditedFlag(st, n), cached)
                  THEN EvalParameterCached(st, n, name)
                  ELSE EvalParameterStore(EvaluateParameter(st, n, name), n, name)
             ELSE EvalParameterUncached(EvaluateParameter(st, n, name), n, name)
    IN  LogRead(r, n, name)

\* The socket names EvalMutedNode tries, in order.
MutedSockets == <<"image", "image 1">>

\* Node.EvalMutedNode: pass the first socket through; on any exception pass
\* the second one through.
EvalMutedNode(st, n) ==
    LET r1 == EvalParameter(st, n, MutedSockets[1])
    IN  IF r1.ok THEN r1 ELSE EvalParameter(r1.st, n, MutedSockets[2])

\* BlurNode.MutedNodeEvaluation
MutedNodeEvaluation(st, n) ==
    EvalMutedNode([st EXCEPT !.mruns[n] = @ + 1], n)

\* The evaluation of an image source node: it has no sockets to read.
SourceNodeEvaluation(st, n) == Ok(SourceImage(n), st)

\* NodeEvaluation reading its socket a second time for the pixels.
BlurNodeEvaluation_ReadsTwice(st, n) ==
    LET kx == EvalProperty(st, n, "kernel_x")
        ky == EvalProperty(st, n, "kernel_y")
        ft == EvalProperty(st, n, "filter_type")
        image0 == EvalParameter(st, n, "image")
        image1 == EvalParameter(image0.st, n, "image")
    IN  IF ~image1.ok THEN image1
        ELSE Ok(BlurTransform(image1.val, ft.val, kx.val, ky.val), image1.st)

\* BlurNode.NodeEvaluation: three property reads, one socket read, the blur.
BlurNodeEvaluation(st, n) ==
    LET kx == EvalProperty(st, n, "kernel_x")
        ky == EvalProperty(st, n, "kernel_y")
        ft == EvalProperty(st, n, "filter_type")
        image1 == EvalParameter(st, n, "image")
    IN  IF ~kx.ok THEN kx
        ELSE IF ~ky.ok THEN ky
        ELSE IF ~ft.ok THEN ft
        ELSE IF ~image1.ok THEN image1
        ELSE Ok(BlurTransform(image1.val, ft.val, kx.val, ky.val), image1.st)

\* NodeEvaluation of node n, by node type.
NodeEvaluation(st, n) ==
    LET st1 == [st EXCEPT !.nruns[n] = @ + 1]
    IN  IF n \in SourceNodes
        THEN SourceNodeEvaluation(st1, n)
        ELSE BlurNodeEvaluation(st1, n)

\* Node.EvaluateNode: the property selects the method by the mute flag; the
\* caller (the context, or the renderer) then calls it.
SelectMuted(isMuted) == isMuted

EvaluateNode(st, n) ==
    LET st1 == [st EXCEPT !.evals[n] = @ + 1]
    IN  IF SelectMuted(IsMuted(n))
        THEN MutedNodeEvaluation(st1, n)
        ELSE NodeEvaluation(st1, n)

\* Node.NodeEvalSelf: NodeEvaluation with a fresh context, whatever the mute flag.
NodeEvalSelf(st, n) == NodeEvaluation(st, n)

\* ---------------------------------------------------- Node: the editing
\* Node.NodeWidgetEventHook: the node type's reaction to an edit (a no-op
\* in Node and in BlurNode); the call is counted.
NodeWidgetEventHook(st, n, idname, value) ==
    [st EXCEPT !.hooks = @ + 1,
               !.events = Append(@, [ev |-> "hook", edited |-> st.edited])]

\* self.nodegraph.parent.parent.Render(): a render request to the graph.
Render(st) ==
    [st EXCEPT !.renders = @ + 1,
               !.events = Append(@, [ev |-> "render", edited |-> st.edited])]

\* _WidgetEventHook asking for a render whatever `render` says.
WidgetEventHook_AlwaysRenders(st, n, idname, value, render) ==
    Render(SetEditedFlag(NodeWidgetEventHook(st, n, idname, value), n, TRUE))

\* _WidgetEventHook marking the node edited only after the render request.
WidgetEventHook_FlagAfterRender(st, n, idname, value, render) ==
    LET st1 == NodeWidgetEventHook(st, n, idname, value)
    IN  SetEditedFlag(IF render = TRUE THEN Render(st1) ELSE st1, n, TRUE)

\* Node._WidgetEventHook
WidgetEventHook(st, n, idname, value, render) ==
    LET st1 == NodeWidgetEventHook(st, n, idname, value)
        st2 == SetEditedFlag(st1, n, TRUE)
    IN  IF render = TRUE THEN Render(st2) ELSE st2

\* Property.SetValue(value, render): stores the value, then calls the hook
\* the node registered in NodeAddProp, which is Node._WidgetEventHook.
SetValue(props, idname, value) == [props EXCEPT ![idname] = value]

\* The lookup marking the node edited before it fails.
LookupFailure_MarksEdited(st, n) ==
    Fail("UnknownIdentifier", SetEditedFlag(st, n, TRUE))

\* self._properties[idname] / self._parameters[idname] with a name that is
\* not a key: the KeyError leaves EditProperty / EditParameter at its first
\* line, before anything is written.
LookupFailure(st, n) == Fail("UnknownIdentifier", st)

\* AddParameter replacing the mapping instead of adding to it.
AddParameter_Replace(params, idname, binding) == [x \in {idname} |-> binding]

\* Node.AddParameter: self._parameters[param.IdName] = param
AddParameter(params, idname, binding) ==
    [x \in DOMAIN params \cup {idname} |-> IF x = idname THEN binding ELSE params[x]]

\* Parameter.SetBinding
SetBinding(params, idname, binding) == [params EXCEPT ![idname] = binding]

\* ------------------------------------------------------- the observation
\* What the operation just performed did: its result r (with the counters
\* of its evaluation state) and the cache and flags it started from.
Observe(op, n, name, args, r) ==
    [op |-> op, node |-> n, name |-> name, args |-> args,
     ok |-> r.ok, val |-> r.val, err |-> r.err,
     ctx |-> r.st.ctx, evals |-> r.st.evals,
     nruns |-> r.st.nruns, mruns |-> r.st.mruns,
     reads |-> r.st.reads, hooks |-> r.st.hooks, renders |-> r.st.renders,
     events |-> r.st.events,
     cache0 |-> cache, edited0 |-> edited_flag]

\* ------------------------------------------------------------------ Init
\* Caching is a capability fixed per node: on everywhere, or off on the
\* last node.
CacheProfiles == {[n \in Nodes |-> n # d] : d \in {0, NumNodes}}

\* The declared sockets of node n: a Blur node's "image", and any in `extra`.
Sockets(n, extra) == IF n \in SourceNodes THEN {} ELSE DOMAIN BlurInitParams \cup extra

\* The wirings of a graph in which node `two` (if any) has the sockets
\* `extra` as well: each socket connected to a node before it or not at all.
Wirings(two, extra) ==
    {ps \in [Nodes -> UNION {[names -> 0 .. NumNodes] : names \in SUBSET ParamNames}] :
        \A n \in Nodes :
            /\ DOMAIN ps[n] = Sockets(n, IF n = two THEN extra ELSE {})
            /\ \A x \in DOMAIN ps[n] : ps[n][x] \in Bindings(n)}

\* The graph after construction and wiring: every Blur node has its declared
\* properties and its "image" socket, connected or not; nothing is cached,
\* edited or muted.
InitWired ==
    /\ parameters \in Wirings(0, {})
    /\ cache_enabled \in CacheProfiles
    /\ muted = [n \in Nodes |-> FALSE]

\* The same graph after the editor gave the last node a second socket,
\* "image 1" (AddParameter), wired it, and muted the node.
InitTwoSockets ==
    /\ parameters \in Wirings(NumNodes, ParamNames)
    /\ cache_enabled = [n \in Nodes |-> TRUE]
    /\ muted = [n \in Nodes |-> n = NumNodes]

Init ==
    /\ properties = [n \in Nodes |-> NodeInitProps(n)]
    /\ InitWired \/ InitTwoSockets
    /\ cache = [n \in Nodes |-> EmptyMap]
    /\ edited_flag = [n \in Nodes |-> FALSE]
    /\ last = Observe("Init", 0, "", <<>>, Ok(<<>>, EvalState))
    /\ nops = 0
    /\ prev = [last EXCEPT !.op = "Off"]

\* The two-socket graph after a render and an edit: both sockets of the last
\* node were read with a result, which is cached, and then one of its
\* properties was edited, which set its edited flag.
InitEdited ==
    /\ parameters \in Wirings(NumNodes, ParamNames)
    /\ cache_enabled = [n \in Nodes |-> TRUE]
    /\ muted = [n \in Nodes |-> FALSE]
    /\ properties = [[n \in Nodes |-> NodeInitProps(n)] EXCEPT
                        ![NumNodes] = SetValue(@, "kernel_x", DefaultKernel + 1)]
    /\ LET st0 == StateOf([n \in Nodes |-> EmptyMap], [n \in Nodes |-> FALSE])
           r1 == EvalParameter(st0, NumNodes, "image")
           r2 == EvalParameter(r1.st, NumNodes, "image 1")
       IN  /\ r1.ok /\ r2.ok
           /\ cache = r2.st.cache
           /\ edited_flag = SetEditedFlag(r2.st, NumNodes, TRUE).edited

InitSeq ==
    /\ InitEdited
    /\ last = Observe("Init", 0, "", <<>>, Ok(<<>>, EvalState))
    /\ nops = 0
    /\ prev = last

\* --------------------------------------------------------------- actions
\* One operation is performed.  A run that keeps the operation before the last
\* one (prev) is explored for MaxSeqOps operations, any other for MaxOps.
Recording == prev.op # "Off"

Step ==
    /\ nops < (IF Recording THEN MaxSeqOps ELSE MaxOps)
    /\ nops' = nops + 1
    /\ prev' = IF Recording THEN last ELSE prev

\* node.EvalParameter(EvalInfo(node), name), called on its own.
CallEvalParameter(n, name) ==
    LET r == EvalParameter(EvalState, n, name)
    IN  /\ Step
        /\ cache' = r.st.cache
        /\ edited_flag' = r.st.edited
        /\ last' = Observe("EvalParameter", n, name, <<>>, r)
        /\ UNCHANGED <<properties, parameters, cache_enabled, muted>>

\* The renderer evaluates node n: node.EvaluateNode(EvalInfo(node)).
CallEvaluateNode(n) ==
    LET r == EvaluateNode(EvalState, n)
    IN  /\ Step
        /\ cache' = r.st.cache
        /\ edited_flag' = r.st.edited
        /\ last' = Observe("EvaluateNode", n, "", <<>>, r)
        /\ UNCHANGED <<properties, parameters, cache_enabled, muted>>

\* node.NodeEvalSelf()
CallNodeEvalSelf(n) ==
    LET r == NodeEvalSelf(EvalState, n)
    IN  /\ Step
        /\ cache' = r.st.cache
        /\ edited_flag' = r.st.edited
        /\ last' = Observe("NodeEvalSelf", n, "", <<>>, r)
        /\ UNCHANGED <<properties, parameters, cache_enabled, muted>>

\* node.EvalProperty(EvalInfo(node), name), called on its own.
CallEvalProperty(n, name) ==
    LET r == EvalProperty(EvalState, n, name)
    IN  /\ Step
        /\ cache' = r.st.cache
        /\ edited_flag' = r.st.edited
        /\ last' = Observe("EvalProperty", n, name, <<>>, r)
        /\ UNCHANGED <<properties, parameters, cache_enabled, muted>>

\* Node.EditProperty(idname, value, render)
EditProperty(n, idname, value, render) ==
    /\ Step
    /\ IF idname \in DOMAIN properties[n]
       THEN LET st == WidgetEventHook(EvalState, n, idname, value, render)
            IN  /\ properties' = [properties EXCEPT ![n] = SetValue(@, idname, value)]
                /\ edited_flag' = st.edited
                /\ last' = Observe("EditProperty", n, idname, <<value, render>>, Ok(<<>>, st))
       ELSE LET r == LookupFailure(EvalState, n)
            IN  /\ UNCHANGED properties
                /\ edited_flag' = r.st.edited
                /\ last' = Observe("EditProperty", n, idname, <<value, render>>, r)
    /\ UNCHANGED <<parameters, cache, cache_enabled, muted>>

\* Node.EditParameter(idname, value)
EditParameter(n, idname, binding) ==
    /\ Step
    /\ IF idname \in DOMAIN parameters[n]
       THEN /\ parameters' = [parameters EXCEPT ![n] = SetBinding(@, idname, binding)]
            /\ cache' = [cache EXCEPT ![n] = RemoveFromCache(@, IsNodeCacheEnabled(n), idname)]
            /\ UNCHANGED edited_flag
            /\ last' = Observe("EditParameter", n, idname, <<binding>>, Ok(<<>>, EvalState))
       ELSE LET r == LookupFailure(EvalState, n)
            IN  /\ UNCHANGED <<parameters, cache>>
                /\ edited_flag' = r.st.edited
                /\ last' = Observe("EditParameter", n, idname, <<binding>>, r)
    /\ UNCHANGED <<properties, cache_enabled, muted>>

\* Node.AddParameter(param) (also NodeAddParam)
CallAddParameter(n, idname, binding) ==
    /\ Step
    /\ parameters' = [parameters EXCEPT ![n] = AddParameter(@, idname, binding)]
    /\ last' = Observe("AddParameter", n, idname, <<binding>>, Ok(<<>>, EvalState))
    /\ UNCHANGED <<properties, cache, cache_enabled, edited_flag, muted>>

\* Node.RemoveFromCache(name), called on its own.
CallRemoveFromCache(n, name) ==
    /\ Step
    /\ cache' = [cache EXCEPT ![n] = RemoveFromCache(@, IsNodeCacheEnabled(n), name)]
    /\ last' = Observe("RemoveFromCache", n, name, <<>>, Ok(<<>>, EvalState))
    /\ UNCHANGED <<properties, parameters, cache_enabled, edited_flag, muted>>

\* Node.ClearCache()
CallClearCache(n) ==
    /\ Step
    /\ cache' = [cache EXCEPT ![n] = ClearCache(@)]
    /\ last' = Observe("ClearCache", n, "", <<>>, Ok(<<>>, EvalState))
    /\ UNCHANGED <<properties, parameters, cache_enabled, edited_flag, muted>>

\* The graph editor mutes or unmutes node n.
ToggleMute(n) ==
    /\ Step
    /\ muted' = [muted EXCEPT ![n] = ~@]
    /\ last' = Observe("ToggleMute", n, "", <<>>, Ok(<<>>, EvalState))
    /\ UNCHANGED <<properties, parameters, cache, cache_enabled, edited_flag>>

Next ==
    \E n \in Nodes :
        \/ \E name \in ParamNames : CallEvalParameter(n, name)
        \/ CallEvaluateNode(n)
        \/ CallNodeEvalSelf(n)
        \/ \E e \in PropEdits : CallEvalProperty(n, e[1])
        \/ \E e \in PropEdits : \E render \in BOOLEAN : EditProperty(n, e[1], e[2], render)
        \/ \E idname \in ParamNames : \E b \in Bindings(n) : EditParameter(n, idname, b)
        \/ \E idname \in ParamNames : CallAddParameter(n, idname, Unbound)
        \/ \E name \in ParamNames : CallRemoveFromCache(n, name)
        \/ CallClearCache(n)
        \/ ToggleMute(n)

Spec == Init /\ [][Next]_vars

\* The same operations, from the edited two-socket graph, with the operation
\* before the last one kept: for what two consecutive operations do.
SpecSeq == InitSeq /\ [][Next]_vars

\* ---------------------------------------------------------------- claims
\* The calls node n's context received during the last operation, and the
\* EvalParameter calls made on node n.
CtxCalls(n) == SelectSeq(last.ctx, LAMBDA c : c.node = n)

Reads(n) == SelectSeq(last.reads, LAMBDA c : c.node = n)

\* The last operation was EvalParameter(ctx, name) on a caching-enabled node,
\* called with the given edited flag and with or without a cache entry for name.
EvalParameterCase(edited, cached) ==
    /\ last.op = "EvalParameter"
    /\ cache_enabled[last.node]
    /\ last.edited0[last.node] = edited
    /\ (last.name \in DOMAIN last.cache0[last.node]) = cached

\* C1: on a caching-enabled node whose edited flag is false, the second of two
\* consecutive EvalParameter(ctx, name) calls for the same name returns what the
\* first returned and does not call ctx.EvaluateParameter.
C1_SecondCallUsesCache ==
    [][ ( /\ last.op = "EvalParameter" /\ last.ok
          /\ cache_enabled[last.node] /\ ~last.edited0[last.node]
          /\ last'.op = "EvalParameter"
          /\ last'.node = last.node /\ last'.name = last.name
          /\ nops' = nops + 1 )
        => ( /\ last'.ok /\ last'.val = last.val
             /\ last'.ctx = <<>> ) ]_vars

\* C2: on a caching-enabled node with a cache entry for name and the edited flag
\* true, EvalParameter(ctx, name) returns the cached value, calls no context,
\* leaves the cache as it was and leaves the edited flag false.
C2_EditedFlagOneShotReuse ==
    EvalParameterCase(TRUE, TRUE) =>
        /\ last.ok
        /\ last.val = last.cache0[last.node][last.name]
        /\ last.ctx = <<>>
        /\ cache = last.cache0
        /\ ~edited_flag[last.node]

\* C2 witness: such a call was made, and the value it reused was cached by an
\* earlier evaluation.
C2_Witness ==
    /\ EvalParameterCase(TRUE, TRUE)
    /\ Len(last.cache0[last.node][last.name]) > 0

\* C3: on a caching-enabled node with the edited flag false and a cache entry
\* for name, EvalParameter(ctx, name) calls ctx.EvaluateParameter(name) exactly
\* once, leaves the edited flag false and, the context having returned a result,
\* stores that result under name and returns it.
C3_RecomputeWhenNotEdited ==
    EvalParameterCase(FALSE, TRUE) =>
        /\ Len(CtxCalls(last.node)) = 1
        /\ CtxCalls(last.node)[1].name = last.name
        /\ ~edited_flag[last.node]
        /\ last.ok = CtxCalls(last.node)[1].ok
        /\ last.ok =>
            /\ last.val = CtxCalls(last.node)[1].val
            /\ last.name \in DOMAIN cache[last.node]
            /\ cache[last.node][last.name] = last.val

\* C3 witness: the recomputation replaced a cached value by a different one.
C3_Witness ==
    /\ EvalParameterCase(FALSE, TRUE)
    /\ last.ok
    /\ last.val # last.cache0[last.node][last.name]

\* C4: EditParameter(A, newBinding) on a declared parameter removes the cache
\* entry for A and leaves every other cache entry with its value, and the
\* edited flags, unchanged.
C4_RebindEvictsOnlyThatEntry ==
    (last.op = "EditParameter" /\ last.ok) =>
        /\ last.name \notin DOMAIN cache[last.node]
        /\ DOMAIN cache[last.node] = DOMAIN last.cache0[last.node] \ {last.name}
        /\ \A x \in DOMAIN cache[last.node] : cache[last.node][x] = last.cache0[last.node][x]
        /\ \A m \in Nodes \ {last.node} : cache[m] = last.cache0[m]
        /\ edited_flag = last.edited0

\* C4 witness: the node held entries for both names and lost one of them.
C4_Witness ==
    /\ last.op = "EditParameter" /\ last.ok
    /\ DOMAIN last.cache0[last.node] = ParamNames
    /\ DOMAIN cache[last.node] = ParamNames \ {last.name}

\* C5: a node with caching disabled has an empty cache in every state, and each
\* EvalParameter call made on it calls its context exactly once.
C5_CachingDisabledBypassesCache ==
    \A n \in Nodes :
        ~cache_enabled[n] =>
            /\ cache[n] = EmptyMap
            /\ Len(CtxCalls(n)) = Len(Reads(n))
            /\ (last.op = "EvalParameter" /\ last.node = n) => Len(CtxCalls(n)) = 1

\* C5 witness: EvalParameter on a caching-disabled node whose edited flag was
\* set returned a value.
C5_Witness ==
    /\ last.op = "EvalParameter" /\ last.ok
    /\ ~cache_enabled[last.node]
    /\ last.edited0[last.node]

\* The last operation evaluated a muted node through EvaluateNode.
MutedEvaluation == last.op = "EvaluateNode" /\ muted[last.node]

\* The reads EvalMutedNode makes, in order: "image" first; "image 1" if and
\* only if the read of "image" failed, and then the result is that read's.
MutedReadOrder ==
    LET rs == Reads(last.node)
    IN  /\ Len(rs) \in {1, 2}
        /\ rs[1].name = "image"
        /\ rs[1].ok => (Len(rs) = 1 /\ last.ok /\ last.val = rs[1].val)
        /\ ~rs[1].ok =>
            /\ Len(rs) = 2
            /\ rs[2].name = "image 1"
            /\ last.ok = rs[2].ok /\ last.val = rs[2].val /\ last.err = rs[2].err

\* Both sockets of the evaluated node are declared and not connected.
BothUnbound ==
    /\ ParamNames \subseteq DOMAIN parameters[last.node]
    /\ \A x \in ParamNames : parameters[last.node][x] = Unbound

\* C6: the muted evaluation reads "image" first and, if that read succeeds, never
\* reads "image 1"; if it fails it reads "image 1" and returns its value; with
\* both sockets unbound the evaluation fails with UnboundParameter.
C6_MuteFallbackOrdering ==
    MutedEvaluation =>
        /\ MutedReadOrder
        /\ BothUnbound => (~last.ok /\ last.err = "UnboundParameter")

\* The blur of node n, with its current properties, applied to img.
BlurOf(n, img) ==
    BlurTransform(img, properties[n]["filter_type"],
                  properties[n]["kernel_x"], properties[n]["kernel_y"])

\* The last operation evaluated c, the end of a chain c <- b <- a, with all
\* caches empty and no node muted.
ChainEvaluated(c, b, a) ==
    /\ last.op = "EvaluateNode" /\ last.node = c
    /\ parameters[c]["image"] = b
    /\ parameters[b]["image"] = a
    /\ \A n \in Nodes : last.cache0[n] = EmptyMap /\ ~muted[n]

\* C7: in a chain c <- b <- a (c's socket connected to b, b's to the source a)
\* with all caches empty and no node muted, one evaluation of c evaluates b once
\* and a once, and returns c's blur of b's blur of a's image.
C7_RecursivePropagation ==
    \A c \in Nodes \ SourceNodes : \A b \in Nodes \ SourceNodes : \A a \in SourceNodes :
        ChainEvaluated(c, b, a) =>
            /\ last.ok
            /\ last.evals[b] = 1 /\ last.nruns[b] = 1
            /\ last.evals[a] = 1 /\ last.nruns[a] = 1
            /\ last.evals[c] = 1
            /\ \A n \in Nodes \ {a, b, c} : last.evals[n] = 0
            /\ last.val = BlurOf(c, BlurOf(b, SourceImage(a)))

\* C7 witness: such a chain was evaluated, the two blurs being different ones.
C7_Witness ==
    \E c \in Nodes \ SourceNodes : \E b \in Nodes \ SourceNodes : \E a \in SourceNodes :
        /\ ChainEvaluated(c, b, a)
        /\ properties[c] # properties[b]
        /\ Len(last.val) = 3

\* C8: an edit of a declared property asks for exactly one render when render is
\* true and for none when it is false; either way the property holds the new
\* value and the node's change hook ran once.
C8_RenderOnlyWhenRequested ==
    (last.op = "EditProperty" /\ last.ok) =>
        /\ last.renders = (IF last.args[2] THEN 1 ELSE 0)
        /\ last.hooks = 1
        /\ properties[last.node][last.name] = last.args[1]

\* C8 witness: an edit with render false went through without a render request.
C8_Witness ==
    /\ last.op = "EditProperty" /\ last.ok
    /\ last.args[2] = FALSE
    /\ last.renders = 0

\* C9: an evaluation of a muted node never runs the node's NodeEvaluation, and
\* an evaluation of an unmuted node never runs its MutedNodeEvaluation.
C9_MuteDispatch ==
    \A n \in Nodes :
        /\ muted[n] => last.nruns[n] = 0
        /\ ~muted[n] => last.mruns[n] = 0

\* C10: every key of a node's cache is a parameter declared on that node.
C10_CacheKeysAreDeclared ==
    \A n \in Nodes : DOMAIN cache[n] \subseteq DOMAIN parameters[n]

\* C10 witness: EvalParameter was called with a name the node does not declare,
\* on a node that holds a cache entry.
C10_Witness ==
    /\ last.op = "EvalParameter"
    /\ last.name \notin DOMAIN parameters[last.node]
    /\ cache[last.node] # EmptyMap

\* The operations that evaluate: they are the ones that read sockets.
EvalOps == {"EvalParameter", "EvaluateNode", "NodeEvalSelf"}

\* The context calls of the last operation that failed, by position.
FailedCtx == {i \in 1 .. Len(last.ctx) : ~last.ctx[i].ok}

\* A muted node whose read of "image" failed and whose read of "image 1",
\* made next, returned a value: the fallback of EvalMutedNode.
MutedFallback(n) ==
    /\ muted[n] /\ last.mruns[n] > 0
    /\ \E j \in 1 .. Len(Reads(n)) - 1 :
          /\ Reads(n)[j].name = "image" /\ ~Reads(n)[j].ok
          /\ Reads(n)[j + 1].name = "image 1" /\ Reads(n)[j + 1].ok

\* C11 as stated: whenever a context call made during an evaluation failed, the
\* evaluation that depends on it does not complete with a value, on the normal
\* and on the muted path alike.
C11_FailurePropagates ==
    (last.op \in EvalOps /\ FailedCtx # {}) => ~last.ok

\* C11, amended: a failed context call fails the EvalParameter read that made
\* it, with the same error; an evaluation in which no muted node ran fails with
\* the error of the first failed call; an evaluation completes with a value
\* despite a failed call only through the fallback of a muted node, whose read
\* of "image 1" succeeded after its read of "image" failed.
C11_FailurePropagatesExceptMuteFallback ==
    last.op \in EvalOps =>
        /\ \A i \in FailedCtx : \E j \in 1 .. Len(last.reads) : last.reads[j] = last.ctx[i]
        /\ (FailedCtx # {} /\ \A n \in Nodes : last.mruns[n] = 0) =>
              /\ ~last.ok
              /\ \A i \in FailedCtx : last.err = last.ctx[i].err
        /\ (FailedCtx # {} /\ last.ok) => \E n \in Nodes : MutedFallback(n)

\* C11 witness: a muted node was evaluated, the node upstream of its "image"
\* socket failed in its own NodeEvaluation, and "image 1" supplied the value.
C11_Witness ==
    /\ last.op = "EvaluateNode" /\ last.ok
    /\ MutedFallback(last.node)
    /\ \E i \in FailedCtx : last.ctx[i].node # last.node
    /\ \E n \in Nodes \ {last.node} : last.nruns[n] > 0 /\ \E j \in 1 .. Len(Reads(n)) : ~Reads(n)[j].ok

\* The identifiers declared on node n for the edit operation op.
Declared(op, n) ==
    IF op = "EditProperty" THEN DOMAIN properties[n] ELSE DOMAIN parameters[n]

\* C12: EditProperty or EditParameter with an identifier not declared on the node
\* fails with UnknownIdentifier, leaves every property value, every parameter
\* binding, every cache and every edited flag as they were, runs no change hook
\* and asks for no render.
C12_UnknownIdentifierChangesNothing ==
    [][ ( /\ nops' = nops + 1
          /\ last'.op \in {"EditProperty", "EditParameter"}
          /\ last'.name \notin Declared(last'.op, last'.node) )
        => ( /\ ~last'.ok /\ last'.err = "UnknownIdentifier"
             /\ UNCHANGED <<properties, parameters, cache, edited_flag>>
             /\ last'.hooks = 0 /\ last'.renders = 0 ) ]_vars

\* C12 witness: an edit of an undeclared socket failed on a node that holds a
\* cache entry and whose edited flag is set.
C12_Witness ==
    /\ last.op = "EditParameter"
    /\ last.name \notin DOMAIN parameters[last.node]
    /\ ~last.ok /\ last.err = "UnknownIdentifier"
    /\ cache[last.node] # EmptyMap
    /\ edited_flag[last.node]

\* Node n's cache entry for x was added or given another value by the last
\* operation.
CacheWritten(n, x) ==
    /\ x \in DOMAIN cache[n]
    /\ x \in DOMAIN last.cache0[n] => cache[n][x] # last.cache0[n][x]

\* C14: a cache entry is added, or a cached value changed, only by an
\* EvalParameter call on a caching-enabled node that asked its context and got a
\* value; no other operation and no other branch of EvalParameter writes.
C14_CacheWrittenOnlyByRecompute ==
    \A n \in Nodes : \A x \in DOMAIN cache[n] :
        CacheWritten(n, x) =>
            /\ last.op \in EvalOps
            /\ cache_enabled[n]
            /\ \E j \in 1 .. Len(last.reads) :
                  /\ last.reads[j].node = n /\ last.reads[j].name = x
                  /\ last.reads[j].ok /\ last.reads[j].val = cache[n][x]
                  /\ \E i \in 1 .. Len(last.ctx) : last.ctx[i] = last.reads[j]

\* C14 witness: an evaluation replaced a cached value by a different one.
C14_Witness ==
    /\ last.op = "EvaluateNode"
    /\ \E n \in Nodes : \E x \in DOMAIN last.cache0[n] : CacheWritten(n, x)

\* C15: EvalProperty(ctx, name) of a declared property returns the property's
\* current value, whatever the edited flag and the cache hold, and leaves every
\* cache and every edited flag as they were.
C15_PropertiesNeverCached ==
    (last.op = "EvalProperty" /\ last.name \in DOMAIN properties[last.node]) =>
        /\ last.ok
        /\ last.val = properties[last.node][last.name]
        /\ cache = last.cache0
        /\ edited_flag = last.edited0

\* C15 witness: EvalProperty returned an edited value on a node whose edited
\* flag is set and whose cache holds an entry.
C15_Witness ==
    /\ last.op = "EvalProperty" /\ last.ok
    /\ last.val # BlurInitProps[last.name]
    /\ last.edited0[last.node]
    /\ last.cache0[last.node] # EmptyMap

\* C16: an edit of a declared property leaves the node's edited flag true,
\* render or not; the change hook runs before the flag is set and the render
\* request, if any, is issued after, with the flag seen true on the edited node.
C16_EditSetsFlagBeforeRender ==
    (last.op = "EditProperty" /\ last.ok) =>
        LET set == [last.edited0 EXCEPT ![last.node] = TRUE]
            hook == [ev |-> "hook", edited |-> last.edited0]
            render == [ev |-> "render", edited |-> set]
        IN  /\ edited_flag = set
            /\ last.events = IF last.args[2] THEN <<hook, render>> ELSE <<hook>>

\* C16 witness: an edit with render true on a node whose flag was false; the
\* render request saw it true.
C16_Witness ==
    /\ last.op = "EditProperty" /\ last.ok
    /\ last.args[2]
    /\ ~last.edited0[last.node]
    /\ Len(last.events) = 2
    /\ last.events[2].ev = "render" /\ last.events[2].edited[last.node]

\* C18: when the context call of an EvalParameter fails, the call fails with
\* the same error; a node all of whose EvalParameter calls failed, or on which
\* none was made, has the cache and the edited flag it had before the operation.
C18_FailedReadChangesNothing ==
    last.op \in EvalOps =>
        /\ (last.op = "EvalParameter" /\ Len(CtxCalls(last.node)) > 0
              /\ ~CtxCalls(last.node)[1].ok) =>
                (~last.ok /\ last.err = CtxCalls(last.node)[1].err)
        /\ \A n \in Nodes :
              (\A j \in 1 .. Len(Reads(n)) : ~Reads(n)[j].ok) =>
                  /\ cache[n] = last.cache0[n]
                  /\ edited_flag[n] = last.edited0[n]

\* C18 witness: a recomputation failed on a caching-enabled node that holds an
\* earlier value for the same socket.
C18_Witness ==
    /\ last.op = "EvalParameter" /\ ~last.ok
    /\ cache_enabled[last.node]
    /\ last.name \in DOMAIN last.cache0[last.node]
    /\ Len(CtxCalls(last.node)) = 1

\* The last two operations were EditParameter(name, binding), which succeeded,
\* and then EvalParameter(ctx, name), on one caching-enabled node.
ReadAfterRebind ==
    /\ prev.op = "EditParameter" /\ prev.ok
    /\ last.op = "EvalParameter"
    /\ last.node = prev.node /\ last.name = prev.name
    /\ cache_enabled[last.node]

\* C13: on a caching-enabled node, the EvalParameter(ctx, name) that follows
\* EditParameter(name, newBinding) finds no cache entry and calls
\* ctx.EvaluateParameter(name) once, with the edited flag true or false; it
\* returns and caches the value of the new binding (the image of a source node
\* bound directly), and fails with UnboundParameter if the new binding is none.
C13_RebindThenReadRecomputes ==
    ReadAfterRebind =>
        LET n == last.node
            b == prev.args[1]
        IN  /\ last.name \notin DOMAIN last.cache0[n]
            /\ parameters[n][last.name] = b
            /\ Len(CtxCalls(n)) = 1
            /\ CtxCalls(n)[1].name = last.name
            /\ last.ok = CtxCalls(n)[1].ok
            /\ last.ok =>
                  /\ last.val = CtxCalls(n)[1].val
                  /\ last.name \in DOMAIN cache[n]
                  /\ cache[n][last.name] = last.val
            /\ (b \in SourceNodes /\ ~muted[b]) => (last.ok /\ last.val = SourceImage(b))
            /\ b = Unbound => (~last.ok /\ last.err = "UnboundParameter")

\* C13 witness: the read after the rebind was made with the edited flag true and
\* returned a value other than the one cached under the previous binding.
C13_Witness ==
    /\ ReadAfterRebind
    /\ last.edited0[last.node]
    /\ last.ok
    /\ last.name \in DOMAIN prev.cache0[last.node]
    /\ last.val # prev.cache0[last.node][last.name]

\* The last two operations were EvalParameter(ctx, A) and EvalParameter(ctx, B),
\* A # B, on one caching-enabled node which, before the first, had its edited
\* flag true and cache entries for A and B.
TwoReadsAfterEdit ==
    /\ prev.op = "EvalParameter" /\ last.op = "EvalParameter"
    /\ last.node = prev.node /\ last.name # prev.name
    /\ cache_enabled[last.node]
    /\ prev.edited0[last.node]
    /\ {prev.name, last.name} \subseteq DOMAIN prev.cache0[last.node]

\* C17: on a caching-enabled node with the edited flag true and cache entries for
\* A and B, EvalParameter(ctx, A) followed by EvalParameter(ctx, B) serves A from
\* the cache without a context call and clears the flag, and the read of B calls
\* ctx.EvaluateParameter(B) once.
C17_FlagConsumedByFirstRead ==
    TwoReadsAfterEdit =>
        LET n == last.node
        IN  /\ prev.ok
            /\ prev.val = prev.cache0[n][prev.name]
            /\ prev.ctx = <<>>
            /\ ~last.edited0[n]
            /\ Len(CtxCalls(n)) = 1
            /\ CtxCalls(n)[1].name = last.name
            /\ last.ok = CtxCalls(n)[1].ok
            /\ last.ok => last.val = CtxCalls(n)[1].val

\* C17 witness: two such reads were made and the recomputation of B returned a
\* value.
C17_Witness ==
    /\ TwoReadsAfterEdit
    /\ last.ok
    /\ Len(last.ctx) > 0

====
